---- MODULE Spec2Model ----
(***************************************************************************)
(* rfs-fuse: the per-mount inode table (identifier <-> path) and the FUSE  *)
(* callbacks getattr, lookup, readdir, open and read of src/src/fs.rs.     *)
(*                                                                         *)
(* A path is the sequence of its components ("/" is the empty sequence),   *)
(* which is how PathBuf compares and hashes.  A text (str) is a sequence   *)
(* of one-character strings.  The backend (librfs::list_directory) is      *)
(* external: what it answers to a call is an input of the request.         *)
(***************************************************************************)
EXTENDS Integers, Sequences, FiniteSets, TLC

\* ---------------------------------------------------------------- bounds
\* Largest identifier a table may allocate when one mount is modelled.
MaxInode == 4
\* Largest identifier a table may allocate when two mounts are modelled.
MaxInodeIso == 2
\* Longest backend listing.
MaxListing == 2
\* Largest number of directory entries the reply buffer of readdir takes.
MaxCap == 4
\* Largest readdir offset requested.
MaxOffset == 1
\* Largest number of mount definitions in pool.toml.
MaxMounts == 2

\* ------------------------------------------------------- program constants
TTL == 1
ROOT_INODE == 1

ENOENT == "ENOENT"
EIO == "EIO"

\* --------------------------------------------------------------------- u64
\* A u64 is four 16-bit limbs, the most significant first (the checker's
\* integers are narrower than 64 bits).
Limb == 65536
U64(n) == <<0, 0, n \div Limb, n % Limb>>
U64_MAX == <<Limb - 1, Limb - 1, Limb - 1, Limb - 1>>
\* U64_MAX - d, for d below 2^16.
BelowMax(d) == <<Limb - 1, Limb - 1, Limb - 1, Limb - 1 - d>>
\* a + b on u64: the wrapped sum, and whether the true sum does not fit.
u64_add(a, b) ==
  LET s4 == a[4] + b[4]
      s3 == a[3] + b[3] + (s4 \div Limb)
      s2 == a[2] + b[2] + (s3 \div Limb)
      s1 == a[1] + b[1] + (s2 \div Limb)
  IN [val |-> <<s1 % Limb, s2 % Limb, s3 % Limb, s4 % Limb>>,
      overflow |-> s1 >= Limb]
\* a / d and a % d on u64, for a divisor d below 2^15.
u64_divmod(a, d) ==
  LET c1 == a[1]
      c2 == (c1 % d) * Limb + a[2]
      c3 == (c2 % d) * Limb + a[3]
      c4 == (c3 % d) * Limb + a[4]
  IN [quot |-> <<c1 \div d, c2 \div d, c3 \div d, c4 \div d>>, rem |-> c4 % d]

\* ------------------------------------------------------------ input domains
\* Valid (UTF-8) single-component names.
Names == {"a", "b"}
\* A name the kernel may pass that is not valid UTF-8.
BadName == "\\xFF"
LookupNames == Names \cup {BadName}

File(size, modified_at) == [kind |-> "File", size |-> size, modified_at |-> modified_at]
Directory(size, modified_at) == [kind |-> "Directory", size |-> size, modified_at |-> modified_at]
\* The entries a backend listing may hold.
Entries == {File(U64(513), 7), Directory(U64(4096), 9)}
\* An entry whose size is within 511 of the largest u64.
BigEntries == {File(U64_MAX, 8)}

Item(name, entry) == [name |-> name, entry |-> entry]
SeqsUpTo(S, n) == UNION {[1..k -> S] : k \in 0..n}
\* A listing is an ordered map: a sequence of (name, entry) with distinct names.
Listings == {l \in SeqsUpTo({Item(n, e) : n \in Names, e \in Entries}, MaxListing) :
               \A i, j \in 1..Len(l) : i # j => l[i].name # l[j].name}
\* Result<Listing, _> of list_directory.
Ok(l) == [ok |-> TRUE, listing |-> l]
Err == [ok |-> FALSE, listing |-> <<>>]
Outcomes == {Err} \cup {Ok(l) : l \in Listings}
\* The outcomes for the callbacks that translate an entry (getattr, lookup):
\* those, and the listings of one entry of a size near the largest.
AttrOutcomes == Outcomes \cup {Ok(<<Item(n, e)>>) : n \in Names, e \in BigEntries}
\* SystemTime::now()
Clock == {11, 12}
ProcessUid == "uid"
ProcessGid == "gid"

\* Option<T>
Some(x) == [some |-> TRUE, val |-> x]
None == [some |-> FALSE]

\* --------------------------------------------------------------- std::path
RootPath == <<>>
\* Path::join with a single relative component.
join(path, name) == Append(path, name)
\* Path::parent: None for "/".
parent(path) == IF path = RootPath THEN None ELSE Some(SubSeq(path, 1, Len(path) - 1))
\* path.parent().unwrap_or_else(|| Path::new("/"))
parent_or_root(path) == IF parent(path).some THEN parent(path).val ELSE RootPath
\* path.file_name().unwrap_or_default(): the last component, "" for "/".
file_name(path) == IF path = RootPath THEN "" ELSE path[Len(path)]
\* OsStr::to_str of a name: None when it is not valid UTF-8.
name_to_str(name) == IF name = BadName THEN None ELSE Some(name)
RECURSIVE path_text(_)
path_text(path) ==
  IF path = RootPath THEN <<>> ELSE <<"/", path[1]>> \o path_text(Tail(path))
\* Path::to_str().unwrap_or("/"): the text handed to list_directory.
path_to_str(path) ==
  IF \E i \in 1..Len(path) : ~name_to_str(path[i]).some THEN <<"/">>
  ELSE IF path = RootPath THEN <<"/">> ELSE path_text(path)

\* listing.get(name)
listing_get(listing, name) ==
  IF \E i \in 1..Len(listing) : listing[i].name = name
  THEN Some(listing[CHOOSE i \in 1..Len(listing) : listing[i].name = name].entry)
  ELSE None

\* ------------------------------------------------------------------ RfsFuse
\* HashMap::insert
insert(map, k, v) == [x \in (DOMAIN map) \cup {k} |-> IF x = k THEN v ELSE map[x]]

\* new, with the counter started at the root's own identifier.
new_counter_at_root(pool_root) ==
  [pool_root |-> pool_root,
   inodes |-> (ROOT_INODE :> RootPath),
   paths |-> (RootPath :> ROOT_INODE),
   next_inode |-> ROOT_INODE]

\* RfsFuse::new: the table holds the root only.
new(pool_root) ==
  [pool_root |-> pool_root,
   inodes |-> (ROOT_INODE :> RootPath),
   paths |-> (RootPath :> ROOT_INODE),
   next_inode |-> ROOT_INODE + 1]

\* get_or_create_inode, without the insert into `inodes`.
get_or_create_inode_no_reverse(t, path) ==
  IF path \in DOMAIN t.paths
  THEN [ino |-> t.paths[path], table |-> t]
  ELSE LET new_ino == t.next_inode
       IN [ino |-> new_ino,
           table |-> [t EXCEPT !.next_inode = t.next_inode + 1,
                               !.paths = insert(t.paths, path, new_ino)]]

\* get_or_create_inode, without the increment of next_inode.
get_or_create_inode_no_bump(t, path) ==
  IF path \in DOMAIN t.paths
  THEN [ino |-> t.paths[path], table |-> t]
  ELSE LET new_ino == t.next_inode
       IN [ino |-> new_ino,
           table |-> [t EXCEPT !.paths = insert(t.paths, path, new_ino),
                               !.inodes = insert(t.inodes, new_ino, path)]]

\* get_or_create_inode, without the look-up of the path already present.
get_or_create_inode_always_new(t, path) ==
  LET new_ino == t.next_inode
  IN [ino |-> new_ino,
      table |-> [t EXCEPT !.next_inode = t.next_inode + 1,
                          !.paths = insert(t.paths, path, new_ino),
                          !.inodes = insert(t.inodes, new_ino, path)]]

\* RfsFuse::get_or_create_inode: the identifier and the table after the call.
\* (next_inode is a u64; the tables modelled stay far below its width.)
get_or_create_inode(t, path) ==
  IF path \in DOMAIN t.paths
  THEN [ino |-> t.paths[path], table |-> t]
  ELSE LET new_ino == t.next_inode
       IN [ino |-> new_ino,
           table |-> [t EXCEPT !.next_inode = t.next_inode + 1,
                               !.paths = insert(t.paths, path, new_ino),
                               !.inodes = insert(t.inodes, new_ino, path)]]

\* RfsFuse::entry_to_attr, as a build without overflow checks computes it:
\* size + 511 wraps.
entry_to_attr(ino, entry, now) ==
  LET kind == IF entry.kind = "File" THEN "RegularFile" ELSE "Directory"
      size == entry.size
  IN [ino |-> ino,
      size |-> size,
      blocks |-> u64_divmod(u64_add(size, U64(511)).val, 512).quot,
      atime |-> now,
      mtime |-> entry.modified_at,
      ctime |-> entry.modified_at,
      crtime |-> entry.modified_at,
      kind |-> kind,
      perm |-> IF kind = "Directory" THEN 493 ELSE 420,
      nlink |-> 1,
      uid |-> ProcessUid,
      gid |-> ProcessGid,
      rdev |-> 0,
      flags |-> 0,
      blksize |-> 512]

\* size + 511 in entry_to_attr does not fit a u64: a build with overflow
\* checks panics there.
entry_to_attr_overflows(entry) == u64_add(entry.size, U64(511)).overflow

\* entry_to_attr under a build: with overflow checks (the debug profile) an
\* overflow panics, without them (the release profile) the sum wraps.
entry_to_attr_build(ino, entry, now, overflow_checks) ==
  IF overflow_checks /\ entry_to_attr_overflows(entry)
  THEN [panic |-> TRUE, attr |-> <<>>]
  ELSE [panic |-> FALSE, attr |-> entry_to_attr(ino, entry, now)]

\* The attributes getattr reports for the root.
root_attr(now) ==
  [ino |-> ROOT_INODE, size |-> U64(4096), blocks |-> U64(8),
   atime |-> now, mtime |-> now, ctime |-> now, crtime |-> now,
   kind |-> "Directory", perm |-> 493, nlink |-> 2,
   uid |-> ProcessUid, gid |-> ProcessGid, rdev |-> 0, flags |-> 0, blksize |-> 512]

\* ------------------------------------------------------------------ replies
ReplyError(errno) == [kind |-> "error", errno |-> errno]
ReplyAttr(ttl, attr) == [kind |-> "attr", ttl |-> ttl, attr |-> attr]
ReplyEntry(ttl, attr, generation) ==
  [kind |-> "entry", ttl |-> ttl, attr |-> attr, generation |-> generation]
ReplyOk(entries) == [kind |-> "ok", entries |-> entries]
\* The callback panicked (Option::unwrap on None, or an arithmetic overflow
\* in a build with overflow checks): it unwinds without calling a method of
\* its reply, which is dropped unanswered in the unwinding.
Panicked == [kind |-> "panic"]
\* What the kernel is answered for a reply dropped unanswered.  That is the
\* drop of the reply type, in the fuser library and not in this program:
\* nothing, or I/O failure (dropped = TRUE).
NoAnswer == [kind |-> "none"]
Answer(reply, dropped) ==
  IF reply = Panicked
  THEN IF dropped THEN ReplyError(EIO) ELSE NoAnswer
  ELSE reply

\* One call of list_directory: the directory text passed and the answer.
Call(dir, out) == [dir |-> dir, out |-> out]

\* What a callback did: the table it leaves, its reply, the backend calls it
\* made, the directory entries it offered to the reply buffer, and the
\* identifiers it put in front of the kernel, each with what the table
\* resolved it to at that moment.
\* signals: what ReplyDirectory::add returned for each entry offered.
ResultDir(t, reply, calls, offered, emitted, signals) ==
  [table |-> t, reply |-> reply, calls |-> calls, offered |-> offered,
   emitted |-> emitted, signals |-> signals]
Result(t, reply, calls, offered, emitted) ==
  ResultDir(t, reply, calls, offered, emitted, <<>>)

\* What the table resolves an identifier to, at the moment it is offered.
Seen(t, ino) ==
  [ino |-> ino, path |-> IF ino \in DOMAIN t.inodes THEN Some(t.inodes[ino]) ELSE None]

\* getattr_listed, asking the backend for the path itself, not its parent.
getattr_listed_self(t, ino, out, now, overflow_checks) ==
  LET path == t.inodes[ino]
      fname == file_name(path)
      calls == <<Call(path_to_str(path), out)>>
  IN IF out.ok
     THEN IF ~name_to_str(fname).some
          THEN Result(t, Panicked, calls, <<>>, <<>>)
          ELSE LET e == listing_get(out.listing, name_to_str(fname).val)
               IN IF e.some
                  THEN LET a == entry_to_attr_build(ino, e.val, now, overflow_checks)
                       IN IF a.panic
                          THEN Result(t, Panicked, calls, <<>>, <<>>)
                          ELSE Result(t, ReplyAttr(TTL, a.attr), calls, <<>>, <<>>)
                  ELSE Result(t, ReplyError(ENOENT), calls, <<>>, <<>>)
     ELSE Result(t, ReplyError(EIO), calls, <<>>, <<>>)

\* Filesystem::getattr, a known identifier other than the root: the entry of
\* the path's file name in the backend listing of its parent.
getattr_listed(t, ino, out, now, overflow_checks) ==
  LET path == t.inodes[ino]
      parent_path == parent_or_root(path)
      fname == file_name(path)
      calls == <<Call(path_to_str(parent_path), out)>>
  IN IF out.ok
     THEN IF ~name_to_str(fname).some
          THEN Result(t, Panicked, calls, <<>>, <<>>)
          ELSE LET e == listing_get(out.listing, name_to_str(fname).val)
               IN IF e.some
                  THEN LET a == entry_to_attr_build(ino, e.val, now, overflow_checks)
                       IN IF a.panic
                          THEN Result(t, Panicked, calls, <<>>, <<>>)
                          ELSE Result(t, ReplyAttr(TTL, a.attr), calls, <<>>, <<>>)
                  ELSE Result(t, ReplyError(ENOENT), calls, <<>>, <<>>)
     ELSE Result(t, ReplyError(EIO), calls, <<>>, <<>>)

\* getattr, without the separate handling of the root.
getattr_no_root_case(t, ino, out, now, overflow_checks) ==
  IF ino \notin DOMAIN t.inodes
  THEN Result(t, ReplyError(ENOENT), <<>>, <<>>, <<>>)
  ELSE getattr_listed(t, ino, out, now, overflow_checks)

\* Filesystem::getattr
getattr(t, ino, out, now, overflow_checks) ==
  IF ino \notin DOMAIN t.inodes
  THEN Result(t, ReplyError(ENOENT), <<>>, <<>>, <<>>)
  ELSE IF ino = ROOT_INODE
       THEN Result(t, ReplyAttr(TTL, root_attr(now)), <<>>, <<>>, <<>>)
       ELSE getattr_listed(t, ino, out, now, overflow_checks)

\* lookup, replying the new identifier without keeping the table it is in.
lookup_drops_table(t, par, name, out, now, overflow_checks) ==
  IF par \notin DOMAIN t.inodes
  THEN Result(t, ReplyError(ENOENT), <<>>, <<>>, <<>>)
  ELSE
    LET parent_path == t.inodes[par]
        calls == <<Call(path_to_str(parent_path), out)>>
    IN IF out.ok
       THEN IF ~name_to_str(name).some
            THEN Result(t, Panicked, calls, <<>>, <<>>)
            ELSE LET e == listing_get(out.listing, name_to_str(name).val)
                 IN IF e.some
                    THEN LET child_path == join(parent_path, name)
                             g == get_or_create_inode(t, child_path)
                             a == entry_to_attr_build(g.ino, e.val, now, overflow_checks)
                         IN IF a.panic
                            THEN Result(t, Panicked, calls, <<>>, <<>>)
                            ELSE Result(t, ReplyEntry(TTL, a.attr, 0), calls,
                                        <<>>, <<Seen(g.table, g.ino)>>)
                    ELSE Result(t, ReplyError(ENOENT), calls, <<>>, <<>>)
       ELSE Result(t, ReplyError(EIO), calls, <<>>, <<>>)

\* lookup, translating the entry under the parent's identifier.
lookup_parent_attr(t, par, name, out, now, overflow_checks) ==
  IF par \notin DOMAIN t.inodes
  THEN Result(t, ReplyError(ENOENT), <<>>, <<>>, <<>>)
  ELSE
    LET parent_path == t.inodes[par]
        calls == <<Call(path_to_str(parent_path), out)>>
    IN IF out.ok
       THEN IF ~name_to_str(name).some
            THEN Result(t, Panicked, calls, <<>>, <<>>)
            ELSE LET e == listing_get(out.listing, name_to_str(name).val)
                 IN IF e.some
                    THEN LET child_path == join(parent_path, name)
                             g == get_or_create_inode(t, child_path)
                             a == entry_to_attr_build(par, e.val, now, overflow_checks)
                         IN IF a.panic
                            THEN Result(g.table, Panicked, calls, <<>>, <<>>)
                            ELSE Result(g.table, ReplyEntry(TTL, a.attr, 0), calls,
                                        <<>>, <<Seen(g.table, g.ino)>>)
                    ELSE Result(t, ReplyError(ENOENT), calls, <<>>, <<>>)
       ELSE Result(t, ReplyError(EIO), calls, <<>>, <<>>)

\* Filesystem::lookup
lookup(t, par, name, out, now, overflow_checks) ==
  IF par \notin DOMAIN t.inodes
  THEN Result(t, ReplyError(ENOENT), <<>>, <<>>, <<>>)
  ELSE
    LET parent_path == t.inodes[par]
        calls == <<Call(path_to_str(parent_path), out)>>
    IN IF out.ok
       THEN IF ~name_to_str(name).some
            THEN Result(t, Panicked, calls, <<>>, <<>>)
            ELSE LET e == listing_get(out.listing, name_to_str(name).val)
                 IN IF e.some
                    THEN LET child_path == join(parent_path, name)
                             g == get_or_create_inode(t, child_path)
                             a == entry_to_attr_build(g.ino, e.val, now, overflow_checks)
                         IN IF a.panic
                            THEN Result(g.table, Panicked, calls, <<>>, <<>>)
                            ELSE Result(g.table, ReplyEntry(TTL, a.attr, 0), calls,
                                        <<>>, <<Seen(g.table, g.ino)>>)
                    ELSE Result(t, ReplyError(ENOENT), calls, <<>>, <<>>)
       ELSE Result(t, ReplyError(EIO), calls, <<>>, <<>>)

\* ReplyDirectory: a buffer that takes `cap` entries.
ReplyDirectory(cap) == [cap |-> cap, data |-> <<>>]
DirEntry(ino, offset, kind, name) ==
  [ino |-> ino, offset |-> offset, kind |-> kind, name |-> name]
\* ReplyDirectory::add: TRUE (full) when the entry does not fit; it is then
\* not added.
add(buf, ino, offset, kind, name) ==
  IF Len(buf.data) >= buf.cap
  THEN [buf |-> buf, full |-> TRUE]
  ELSE [buf |-> [buf EXCEPT !.data = Append(@, DirEntry(ino, offset, kind, name))],
        full |-> FALSE]

\* readdir_loop, numbering the children from offset 1.
RECURSIVE readdir_loop_offset_from1(_, _, _, _, _, _, _, _)
readdir_loop_offset_from1(t, path, listing, i, buf, offered, emitted, signals) ==
  IF i > Len(listing)
  THEN [table |-> t, buf |-> buf, offered |-> offered, emitted |-> emitted,
        signals |-> signals]
  ELSE
    LET name == listing[i].name
        entry == listing[i].entry
        child_path == join(path, name)
        g == get_or_create_inode(t, child_path)
        kind == IF entry.kind = "File" THEN "RegularFile" ELSE "Directory"
        a == add(buf, g.ino, (i - 1) + 1, kind, name)
        offered2 == Append(offered, DirEntry(g.ino, (i - 1) + 1, kind, name))
        emitted2 == Append(emitted, Seen(g.table, g.ino))
        signals2 == Append(signals, a.full)
    IN IF a.full
       THEN [table |-> g.table, buf |-> a.buf, offered |-> offered2,
             emitted |-> emitted2, signals |-> signals2]
       ELSE readdir_loop_offset_from1(g.table, path, listing, i + 1, a.buf, offered2,
                                      emitted2, signals2)

\* readdir_loop, without the break when the buffer is full.
RECURSIVE readdir_loop_no_break(_, _, _, _, _, _, _, _)
readdir_loop_no_break(t, path, listing, i, buf, offered, emitted, signals) ==
  IF i > Len(listing)
  THEN [table |-> t, buf |-> buf, offered |-> offered, emitted |-> emitted,
        signals |-> signals]
  ELSE
    LET name == listing[i].name
        entry == listing[i].entry
        child_path == join(path, name)
        g == get_or_create_inode(t, child_path)
        kind == IF entry.kind = "File" THEN "RegularFile" ELSE "Directory"
        a == add(buf, g.ino, (i - 1) + 2, kind, name)
        offered2 == Append(offered, DirEntry(g.ino, (i - 1) + 2, kind, name))
        emitted2 == Append(emitted, Seen(g.table, g.ino))
        signals2 == Append(signals, a.full)
    IN readdir_loop_no_break(g.table, path, listing, i + 1, a.buf, offered2,
                             emitted2, signals2)

\* The loop of readdir over the listing, from its i-th item (1-based here,
\* enumerate() counts from 0).
RECURSIVE readdir_loop(_, _, _, _, _, _, _, _)
readdir_loop(t, path, listing, i, buf, offered, emitted, signals) ==
  IF i > Len(listing)
  THEN [table |-> t, buf |-> buf, offered |-> offered, emitted |-> emitted,
        signals |-> signals]
  ELSE
    LET name == listing[i].name
        entry == listing[i].entry
        child_path == join(path, name)
        g == get_or_create_inode(t, child_path)
        kind == IF entry.kind = "File" THEN "RegularFile" ELSE "Directory"
        a == add(buf, g.ino, (i - 1) + 2, kind, name)
        offered2 == Append(offered, DirEntry(g.ino, (i - 1) + 2, kind, name))
        emitted2 == Append(emitted, Seen(g.table, g.ino))
        signals2 == Append(signals, a.full)
    IN IF a.full
       THEN [table |-> g.table, buf |-> a.buf, offered |-> offered2,
             emitted |-> emitted2, signals |-> signals2]
       ELSE readdir_loop(g.table, path, listing, i + 1, a.buf, offered2, emitted2,
                         signals2)

\* readdir, emitting the listing whatever the offset.
readdir_any_offset(t, ino, offset, out, cap) ==
  IF ino \notin DOMAIN t.inodes
  THEN Result(t, ReplyError(ENOENT), <<>>, <<>>, <<>>)
  ELSE
    LET path == t.inodes[ino]
        a1 == add(ReplyDirectory(cap), ino, 0, "Directory", ".")
        g == IF ino = ROOT_INODE
             THEN [ino |-> ROOT_INODE, table |-> t]
             ELSE get_or_create_inode(t, parent_or_root(path))
        parent_ino == g.ino
        a2 == add(a1.buf, parent_ino, 1, "Directory", "..")
        offered == <<DirEntry(ino, 0, "Directory", "."),
                     DirEntry(parent_ino, 1, "Directory", "..")>>
        emitted == <<Seen(t, ino), Seen(g.table, parent_ino)>>
        signals == <<a1.full, a2.full>>
        calls == <<Call(path_to_str(path), out)>>
    IN IF out.ok
       THEN LET r == readdir_loop(g.table, path, out.listing, 1, a2.buf, offered,
                                  emitted, signals)
            IN ResultDir(r.table, ReplyOk(r.buf.data), calls, r.offered, r.emitted,
                         r.signals)
       ELSE ResultDir(g.table, ReplyError(EIO), calls, offered, emitted, signals)

\* Filesystem::readdir
readdir(t, ino, offset, out, cap) ==
  IF ino \notin DOMAIN t.inodes
  THEN Result(t, ReplyError(ENOENT), <<>>, <<>>, <<>>)
  ELSE
    LET path == t.inodes[ino] IN
    IF offset = 0
    THEN
      LET a1 == add(ReplyDirectory(cap), ino, 0, "Directory", ".")
          g == IF ino = ROOT_INODE
               THEN [ino |-> ROOT_INODE, table |-> t]
               ELSE get_or_create_inode(t, parent_or_root(path))
          parent_ino == g.ino
          a2 == add(a1.buf, parent_ino, 1, "Directory", "..")
          offered == <<DirEntry(ino, 0, "Directory", "."),
                       DirEntry(parent_ino, 1, "Directory", "..")>>
          emitted == <<Seen(t, ino), Seen(g.table, parent_ino)>>
          signals == <<a1.full, a2.full>>
          calls == <<Call(path_to_str(path), out)>>
      IN IF out.ok
         THEN LET r == readdir_loop(g.table, path, out.listing, 1, a2.buf, offered,
                                    emitted, signals)
              IN ResultDir(r.table, ReplyOk(r.buf.data), calls, r.offered, r.emitted,
                           r.signals)
         ELSE ResultDir(g.table, ReplyError(EIO), calls, offered, emitted, signals)
    ELSE Result(t, ReplyOk(<<>>), <<>>, <<>>, <<>>)

\* Filesystem::open
open(t, ino) == Result(t, ReplyError(ENOENT), <<>>, <<>>, <<>>)

\* Filesystem::read
read(t, ino) == Result(t, ReplyError(ENOENT), <<>>, <<>>, <<>>)

\* -------------------------------------------------------------------- state
VARIABLES
  mounts,   \* the mounts of the process
  fs,       \* fs[m]: the RfsFuse of mount m (pool_root, inodes, paths, next_inode)
  alive,    \* alive[m]: the dispatch thread of mount m has not panicked
  handed,   \* handed[m]: every (identifier, path) mount m has offered to the kernel
  pending,  \* pending[m]: the request whose callback waits for the backend, if any
  last,     \* the last request served and what the callback did
  build,    \* the build of the program: with or without overflow checks
  xl,       \* the last translation of a backend entry on its own (entry_to_attr)
  config,   \* what load_and_mount_pools reads: pool and mount definitions
  orch,     \* run: its position, its locals and its result
  tasks,    \* tasks[i]: the blocking task spawned for the i-th mount definition
  sessions, \* sessions[i]: the kernel mount session of the i-th mount definition
  proc      \* the process: running, or exited and how

\* The variables the callbacks of a mount do not touch.
others == <<build, xl, config, orch, tasks, sessions, proc>>
vars == <<mounts, fs, alive, handed, pending, last, others>>

\* No entry has been translated on its own.
NoTranslation ==
  [op |-> "none", ino |-> 0, entry |-> <<>>, overflow_checks |-> FALSE,
   result |-> [panic |-> FALSE, attr |-> <<>>]]

\* What lies outside the mounts is at rest.
\* The debug profile checks arithmetic for overflow, the release profile does not.
Builds == {[overflow_checks |-> b] : b \in BOOLEAN}

\* run is not under way.
NoConfig == [pools |-> <<>>, mounts |-> <<>>]
NoResult == [kind |-> "none"]
OrchOff ==
  [pc |-> "off", i |-> 0, j |-> 0, join_handles |-> <<>>, session_guards |-> <<>>,
   result |-> NoResult, mounted |-> FALSE, waited |-> FALSE, handler |-> FALSE]
Running == [state |-> "running", code |-> 0, by |-> "none"]

OthersIdle ==
  /\ xl = NoTranslation
  /\ config = NoConfig
  /\ orch = OrchOff
  /\ tasks = <<>>
  /\ sessions = <<>>
  /\ proc = Running

\* The pool root of mount m (main.rs: pool_map.get(&mount_config.pool_id)).
PoolRoot(m) == <<"/", "p">>

NoRequest ==
  [op |-> "none", m |-> 0, ino |-> 0, name |-> "", offset |-> 0,
   reply |-> NoAnswer, answer |-> NoAnswer, calls |-> <<>>, offered |-> <<>>,
   signals |-> <<>>, fresh |-> FALSE]

\* No callback of the mount waits for the backend.
NoPending == [op |-> "none", ino |-> 0, name |-> "", offset |-> 0, cap |-> 0]
\* The request of a callback that waits in block_on(list_directory(..)).
Pending(op, ino, name, offset, cap) ==
  [op |-> op, ino |-> ino, name |-> name, offset |-> offset, cap |-> cap]

\* The record of a served request; reply: what the callback did with its
\* reply; answer: what the kernel is answered; fresh: the callback allocated
\* an identifier.
Served(op, m, ino, name, offset, r, dropped) ==
  [op |-> op, m |-> m, ino |-> ino, name |-> name, offset |-> offset,
   reply |-> r.reply, answer |-> Answer(r.reply, dropped),
   calls |-> r.calls, offered |-> r.offered,
   signals |-> r.signals,
   fresh |-> r.table.next_inode # fs[m].next_inode]

\* run: each mount's blocking task constructs its own RfsFuse.
InitMounts(M) ==
  /\ mounts = M
  /\ fs = [m \in M |-> new(PoolRoot(m))]
  /\ alive = [m \in M |-> TRUE]
  /\ handed = [m \in M |-> {}]
  /\ pending = [m \in M |-> NoPending]
  /\ last = NoRequest
  /\ build \in Builds
  /\ OthersIdle

Init == InitMounts({1})
InitTwo == InitMounts({1, 2})

\* The entries the reply buffer of a readdir request takes, from none (a
\* buffer too small for "." already) to all of the largest listing.
Caps == 0..MaxCap

\* The largest identifier the model lets a table allocate.
Limit == IF Cardinality(mounts) = 1 THEN MaxInode ELSE MaxInodeIso
InodeInputs == 0..(Limit + 1)

\* SetMount, with one table for the whole process.
SetMount_shared(f, m, t) == [x \in DOMAIN f |-> t]

\* A callback runs with &mut self: it writes the fields of its own RfsFuse.
SetMount(f, m, t) == [f EXCEPT ![m] = t]

\* The callback reaches its call of list_directory: getattr for a known
\* identifier other than the root, lookup for a known parent, readdir for a
\* known identifier at offset 0.
getattr_waits(t, ino) == ino \in DOMAIN t.inodes /\ ino # ROOT_INODE
lookup_waits(t, par) == par \in DOMAIN t.inodes
readdir_waits(t, ino, offset) == ino \in DOMAIN t.inodes /\ offset = 0

\* readdir up to its call of list_directory: the table after the identifier
\* of the parent path was asked for (for "..").
readdir_before_wait(t, ino) ==
  IF ino = ROOT_INODE THEN t
  ELSE get_or_create_inode(t, parent_or_root(t.inodes[ino])).table

\* The dispatch thread of mount m takes a request whose callback goes as far
\* as block_on(list_directory(..)) and waits there, the table being t by then.
\* The threads of the other mounts go on.
Wait(m, p, t) ==
  /\ last.op = "none"
  /\ alive[m]
  /\ pending[m] = NoPending
  /\ t.next_inode <= Limit + 1
  /\ pending' = [pending EXCEPT ![m] = p]
  /\ fs' = SetMount(fs, m, t)
  /\ UNCHANGED <<mounts, alive, handed, last, others>>

\* The callback of a request of mount m comes to its end; r is what it did,
\* from its start.
Serve(m, r, rec) ==
  /\ last.op = "none"
  /\ alive[m]
  /\ r.table.next_inode <= Limit + 1
  /\ fs' = SetMount(fs, m, r.table)
  /\ alive' = [alive EXCEPT ![m] = r.reply.kind # "panic"]
  /\ handed' = [handed EXCEPT ![m] = @ \cup {r.emitted[i] : i \in 1..Len(r.emitted)}]
  /\ pending' = [pending EXCEPT ![m] = NoPending]
  /\ last' = rec
  /\ UNCHANGED <<mounts, others>>

\* A getattr request arrives: the callback waits for the backend, or replies
\* at once (the backend's answer is not read then).
GetattrReq(m, ino, now) ==
  /\ pending[m] = NoPending
  /\ IF getattr_waits(fs[m], ino)
     THEN Wait(m, Pending("getattr", ino, "", 0, 0), fs[m])
     ELSE LET r == getattr(fs[m], ino, Err, now, build.overflow_checks)
          IN Serve(m, r, Served("getattr", m, ino, "", 0, r, FALSE))

\* The backend answers the getattr callback that waits.
GetattrDone(m, out, now, dropped) ==
  /\ pending[m].op = "getattr"
  /\ LET ino == pending[m].ino
         r == getattr(fs[m], ino, out, now, build.overflow_checks)
     IN Serve(m, r, Served("getattr", m, ino, "", 0, r, dropped))

\* A lookup request arrives (an unknown parent reads neither the backend's
\* answer nor the clock).
LookupReq(m, par, name) ==
  /\ pending[m] = NoPending
  /\ IF lookup_waits(fs[m], par)
     THEN Wait(m, Pending("lookup", par, name, 0, 0), fs[m])
     ELSE LET r == lookup(fs[m], par, name, Err, 0, build.overflow_checks)
          IN Serve(m, r, Served("lookup", m, par, name, 0, r, FALSE))

\* The backend answers the lookup callback that waits.
LookupDone(m, out, now, dropped) ==
  /\ pending[m].op = "lookup"
  /\ LET par == pending[m].ino
         name == pending[m].name
         r == lookup(fs[m], par, name, out, now, build.overflow_checks)
     IN Serve(m, r, Served("lookup", m, par, name, 0, r, dropped))

\* A readdir request arrives, with a reply buffer that takes cap entries.
ReaddirReq(m, ino, offset, cap) ==
  /\ pending[m] = NoPending
  /\ IF readdir_waits(fs[m], ino, offset)
     THEN Wait(m, Pending("readdir", ino, "", offset, cap),
               readdir_before_wait(fs[m], ino))
     ELSE LET r == readdir(fs[m], ino, offset, Err, cap)
          IN Serve(m, r, Served("readdir", m, ino, "", offset, r, FALSE))

\* The backend answers the readdir callback that waits.
ReaddirDone(m, out) ==
  /\ pending[m].op = "readdir"
  /\ LET ino == pending[m].ino
         r == readdir(fs[m], ino, pending[m].offset, out, pending[m].cap)
     IN Serve(m, r, Served("readdir", m, ino, "", pending[m].offset, r, FALSE))

OpenReq(m, ino) ==
  /\ pending[m] = NoPending
  /\ LET r == open(fs[m], ino)
     IN Serve(m, r, Served("open", m, ino, "", 0, r, FALSE))

ReadReq(m, ino) ==
  /\ pending[m] = NoPending
  /\ LET r == read(fs[m], ino)
     IN Serve(m, r, Served("read", m, ino, "", 0, r, FALSE))

\* The reply is out and seen: the record of the request served is cleared.
AwaitRequest ==
  /\ last.op # "none"
  /\ last' = NoRequest
  /\ UNCHANGED <<mounts, fs, alive, handed, pending, others>>

\* The requests of the kernel and the answers of the backend, drawn from the
\* sets of `in`: outs for readdir, attr_outs for the callbacks that translate
\* an entry, caps for the reply buffers, offsets, and clock for the time.
\* Each mount has its own dispatch thread: while a callback of one mount
\* waits, the others serve.
Requests(in) ==
  \/ AwaitRequest
  \/ \E m \in mounts :
    \/ \E ino \in InodeInputs, now \in in.clock : GetattrReq(m, ino, now)
    \/ \E out \in in.attr_outs, now \in in.clock, dropped \in BOOLEAN :
         GetattrDone(m, out, now, dropped)
    \/ \E par \in InodeInputs, name \in LookupNames : LookupReq(m, par, name)
    \/ \E out \in in.attr_outs, now \in in.clock, dropped \in BOOLEAN :
         LookupDone(m, out, now, dropped)
    \/ \E ino \in InodeInputs, offset \in in.offsets, cap \in in.caps :
         ReaddirReq(m, ino, offset, cap)
    \/ \E out \in in.outs : ReaddirDone(m, out)
    \/ \E ino \in InodeInputs : OpenReq(m, ino)
    \/ \E ino \in InodeInputs : ReadReq(m, ino)

Inputs ==
  [outs |-> Outcomes, attr_outs |-> AttrOutcomes, caps |-> Caps,
   offsets |-> (-1)..MaxOffset, clock |-> Clock]
Next == Requests(Inputs)

\* With two mounts: listings of one entry at most, reply buffers that take
\* every entry offered, offset 0 and the largest, one time of day.
IsoInputs ==
  [outs |-> {o \in Outcomes : Len(o.listing) <= 1},
   attr_outs |-> {o \in AttrOutcomes : Len(o.listing) <= 1},
   caps |-> {MaxCap}, offsets |-> {0, MaxOffset}, clock |-> {11}]
NextTwo == Requests(IsoInputs)

Spec == Init /\ [][Next]_vars
SpecTwo == InitTwo /\ [][NextTwo]_vars

\* ------------------------------------------------- entry_to_attr on its own
\* The sizes translated: around 0, around the block size, and the largest
\* u64 values (2^64 - 1 - d).
AttrSizes ==
  {U64(n) : n \in {0, 1, 511, 512, 513, 1024}}
    \cup {BelowMax(d) : d \in {0, 1, 510, 511, 512}}
AttrEntries ==
  {File(s, 7) : s \in AttrSizes} \cup {Directory(s, 9) : s \in AttrSizes}

InitAttr ==
  /\ mounts = {}
  /\ fs = <<>>
  /\ alive = <<>>
  /\ handed = <<>>
  /\ pending = <<>>
  /\ last = NoRequest
  /\ build \in Builds
  /\ OthersIdle

\* entry_to_attr(ino, entry) in the build at hand.
Translate(ino, entry, now) ==
  /\ xl' = [op |-> "translate", ino |-> ino, entry |-> entry,
            overflow_checks |-> build.overflow_checks,
            result |-> entry_to_attr_build(ino, entry, now, build.overflow_checks)]
  /\ UNCHANGED <<mounts, fs, alive, handed, pending, last, build, config, orch, tasks, sessions, proc>>

NextAttr ==
  \E ino \in 1..MaxInode, entry \in AttrEntries, now \in Clock :
    Translate(ino, entry, now)

SpecAttr == InitAttr /\ [][NextAttr]_vars

\* ------------------------------------------------------- main.rs: run, main
PoolDef(id, path) == [pool_id |-> id, path |-> path]
MountDef(mount_point, id) == [mount_point |-> mount_point, pool_id |-> id]
\* The pool definitions of pool.toml: pool 3 alone, or pools 3 and 7.
PoolConfigs ==
  {<<PoolDef(3, "/pool3")>>, <<PoolDef(3, "/pool3"), PoolDef(7, "/pool7")>>}
MountPoints == {"/mnt/x", "/mnt/y"}
MountConfigs ==
  SeqsUpTo({MountDef(mp, id) : mp \in MountPoints, id \in {3, 7}}, MaxMounts)
Configs == {[pools |-> p, mounts |-> ms] : p \in PoolConfigs, ms \in MountConfigs}

\* pools.into_iter().map(|p| (p.pool_id, p.path)).collect(): a later
\* definition of an identifier replaces an earlier one.
pool_map(pools) ==
  [id \in {pools[k].pool_id : k \in 1..Len(pools)} |->
     pools[CHOOSE k \in 1..Len(pools) :
             /\ pools[k].pool_id = id
             /\ \A k2 \in 1..Len(pools) : pools[k2].pool_id = id => k2 <= k].path]

ResultOk == [kind |-> "Ok"]
ErrPool == [kind |-> "Pool"]
ErrMountConfig(mount_point, pool_id) ==
  [kind |-> "MountConfig", mount_point |-> mount_point, pool_id |-> pool_id]
\* FuseError::Io: of the establishment of mount i, or of the signal wait (0).
ErrIo(i) == [kind |-> "Io", of |-> i]

Task(st, detached) == [st |-> st, detached |-> detached]

InitRun ==
  /\ mounts = {}
  /\ fs = <<>>
  /\ alive = <<>>
  /\ handed = <<>>
  /\ pending = <<>>
  /\ last = NoRequest
  /\ build \in Builds
  /\ xl = NoTranslation
  /\ config \in Configs
  /\ orch = [OrchOff EXCEPT !.pc = "main"]
  /\ tasks = [i \in 1..Len(config.mounts) |-> Task("none", FALSE)]
  /\ sessions = [i \in 1..Len(config.mounts) |-> "none"]
  /\ proc = Running

\* The RfsFuse of mount i comes into being / is dropped.
WithMount(f, i, v) == [m \in (DOMAIN f) \cup {i} |-> IF m = i THEN v ELSE f[m]]
WithoutMount(f, D) == [m \in (DOMAIN f) \ D |-> f[m]]
DropMounts(D) ==
  /\ mounts' = mounts \ D
  /\ fs' = WithoutMount(fs, D)
  /\ alive' = WithoutMount(alive, D)
  /\ handed' = WithoutMount(handed, D)
  /\ pending' = WithoutMount(pending, D)

\* run returns `result`: its locals are about to be dropped, the join handles
\* not yet awaited (rest) first, then the session guards it holds.
Return(result, rest) ==
  /\ orch' = [orch EXCEPT !.pc = IF rest = <<>> /\ orch.session_guards = <<>>
                                 THEN "returned" ELSE "dropping",
                          !.result = result,
                          !.join_handles = rest]
  /\ UNCHANGED <<mounts, fs, alive, handed, pending, tasks, sessions>>

\* run returning: the next local is dropped.  A join handle dropped detaches
\* a task still under way and drops the output of a finished one, releasing
\* the session in it; a session guard dropped releases its session.
DropLocal ==
  /\ proc.state = "running" /\ orch.pc = "dropping"
  /\ IF orch.join_handles # <<>>
     THEN LET i == Head(orch.join_handles)
              st == tasks[i].st
          IN /\ tasks' = [tasks EXCEPT
                            ![i] = Task(IF st \in {"ok", "err"} THEN "dropped" ELSE st,
                                        TRUE)]
             /\ orch' = [orch EXCEPT
                           !.join_handles = Tail(@),
                           !.pc = IF Tail(orch.join_handles) = <<>>
                                      /\ orch.session_guards = <<>>
                                  THEN "returned" ELSE "dropping"]
             /\ IF st = "ok"
                THEN /\ sessions' = [sessions EXCEPT ![i] = "released"]
                     /\ DropMounts({i})
                ELSE UNCHANGED <<sessions, mounts, fs, alive, handed, pending>>
     ELSE LET i == Head(orch.session_guards)
          IN /\ orch' = [orch EXCEPT
                           !.session_guards = Tail(@),
                           !.pc = IF Tail(orch.session_guards) = <<>>
                                  THEN "returned" ELSE "dropping"]
             /\ sessions' = [sessions EXCEPT ![i] = "released"]
             /\ DropMounts({i})
             /\ UNCHANGED tasks
  /\ UNCHANGED <<last, build, xl, config, proc>>

\* main, lines 26-35: load the main configuration; a failure ends the process
\* with process::exit(1) before run is entered.
LoadConfig(ok) ==
  /\ proc.state = "running" /\ orch.pc = "main"
  /\ IF ok
     THEN /\ orch' = [orch EXCEPT !.pc = "start"]
          /\ UNCHANGED proc
     ELSE /\ proc' = [state |-> "exited", code |-> 1, by |-> "main"]
          /\ UNCHANGED orch
  /\ UNCHANGED <<mounts, fs, alive, handed, pending, last, build, xl, config, tasks, sessions>>

\* run, lines 45-56: load the definitions; no mounts is a success.
Load(ok) ==
  /\ proc.state = "running" /\ orch.pc = "start"
  /\ IF ~ok THEN Return(ErrPool, <<>>)
     ELSE IF config.mounts = <<>> THEN Return(ResultOk, <<>>)
     ELSE /\ orch' = [orch EXCEPT !.pc = "resolve", !.i = 1]
          /\ UNCHANGED <<mounts, fs, alive, handed, pending, tasks, sessions>>
  /\ UNCHANGED <<last, build, xl, config, proc>>

\* run, lines 58-87: one turn of the loop over the mount definitions:
\* resolve the pool, or fail; spawn the blocking task that mounts it.
ResolveSpawn ==
  /\ proc.state = "running" /\ orch.pc = "resolve"
  /\ LET i == orch.i
         mount_config == config.mounts[i]
         pm == pool_map(config.pools)
     IN IF mount_config.pool_id \notin DOMAIN pm
        THEN Return(ErrMountConfig(mount_config.mount_point, mount_config.pool_id),
                    orch.join_handles)
        ELSE /\ tasks' = [tasks EXCEPT ![i] = Task("queued", FALSE)]
             /\ orch' = [orch EXCEPT !.join_handles = Append(@, i),
                                     !.i = i + 1,
                                     !.pc = IF i = Len(config.mounts) THEN "await"
                                            ELSE "resolve",
                                     !.j = IF i = Len(config.mounts) THEN 1 ELSE 0]
             /\ UNCHANGED <<mounts, fs, alive, handed, pending, sessions>>
  /\ UNCHANGED <<last, build, xl, config, proc>>

\* The blocking task of mount i, line 77: RfsFuse::new(pool_root).
TaskConstruct(i) ==
  /\ proc.state = "running"
  /\ tasks[i].st = "queued"
  /\ tasks' = [tasks EXCEPT ![i].st = "constructed"]
  /\ mounts' = mounts \cup {i}
  /\ fs' = WithMount(fs, i, new(pool_map(config.pools)[config.mounts[i].pool_id]))
  /\ alive' = WithMount(alive, i, TRUE)
  /\ handed' = WithMount(handed, i, {})
  /\ pending' = WithMount(pending, i, NoPending)
  /\ UNCHANGED <<last, build, xl, config, orch, sessions, proc>>

\* The blocking task of mount i, line 84: spawn_mount2 establishes the
\* session, or fails (the RfsFuse it was given is then dropped).
TaskMount(i, ok) ==
  /\ proc.state = "running"
  /\ tasks[i].st = "constructed"
  /\ IF ok
     THEN /\ tasks' = [tasks EXCEPT ![i].st = "ok"]
          /\ sessions' = [sessions EXCEPT ![i] = "active"]
          /\ UNCHANGED <<mounts, fs, alive, handed, pending>>
     ELSE /\ tasks' = [tasks EXCEPT ![i].st = "err"]
          /\ UNCHANGED sessions
          /\ DropMounts({i})
  /\ UNCHANGED <<last, build, xl, config, orch, proc>>

\* The task of mount i has finished with its join handle dropped: the
\* runtime drops its output, which releases the session in it.
TaskDropOutput(i) ==
  /\ proc.state = "running"
  /\ tasks[i].detached /\ tasks[i].st \in {"ok", "err"}
  /\ tasks' = [tasks EXCEPT ![i].st = "dropped"]
  /\ IF tasks[i].st = "ok"
     THEN /\ sessions' = [sessions EXCEPT ![i] = "released"]
          /\ DropMounts({i})
     ELSE UNCHANGED <<sessions, mounts, fs, alive, handed, pending>>
  /\ UNCHANGED <<last, build, xl, config, orch, proc>>

\* run, lines 90-101: await the next join handle, in the order of the mount
\* definitions; keep the session, or return the failure.
Await ==
  /\ proc.state = "running" /\ orch.pc = "await"
  /\ LET i == orch.join_handles[orch.j]
         later == SubSeq(orch.join_handles, orch.j + 1, Len(orch.join_handles))
     IN /\ tasks[i].st \in {"ok", "err"}
        /\ IF tasks[i].st = "ok"
           THEN /\ tasks' = [tasks EXCEPT ![i].st = "taken"]
                /\ orch' = [orch EXCEPT
                              !.session_guards = Append(@, i),
                              !.j = orch.j + 1,
                              !.pc = IF orch.j = Len(orch.join_handles)
                                     THEN "mounted" ELSE "await",
                              !.mounted = (orch.j = Len(orch.join_handles))]
                /\ UNCHANGED <<mounts, fs, alive, handed, pending, sessions>>
           ELSE Return(ErrIo(i), later)
  /\ UNCHANGED <<last, build, xl, config, proc>>

\* run, line 104: tokio::signal::ctrl_c() is called and registers the handler
\* of the interrupt signal.  When the registration succeeds the handler is
\* installed (for the rest of the process) and run waits; when it fails no
\* handler is installed, ctrl_c().await is the error and `?` returns it.
CtrlC(ok) ==
  /\ proc.state = "running" /\ orch.pc = "mounted"
  /\ IF ok
     THEN /\ orch' = [orch EXCEPT !.pc = "wait", !.waited = TRUE, !.handler = TRUE]
          /\ UNCHANGED <<mounts, fs, alive, handed, pending, tasks, sessions>>
     ELSE /\ orch' = [orch EXCEPT
                        !.pc = IF orch.session_guards = <<>> THEN "returned"
                               ELSE "dropping",
                        !.result = ErrIo(0),
                        !.join_handles = <<>>,
                        !.waited = TRUE]
          /\ UNCHANGED <<mounts, fs, alive, handed, pending, tasks, sessions>>
  /\ UNCHANGED <<last, build, xl, config, proc>>

\* run, lines 104-111: the interrupt signal is delivered to the installed
\* handler, ctrl_c().await is Ok and run returns Ok(()).
WaitEnds ==
  /\ proc.state = "running" /\ orch.pc = "wait"
  /\ Return(ResultOk, <<>>)
  /\ UNCHANGED <<last, build, xl, config, proc>>

\* main, lines 37-40: run has returned; an error ends in process::exit(1).
MainEnds ==
  /\ proc.state = "running" /\ orch.pc = "returned"
  /\ proc' = [state |-> "exited",
              code |-> IF orch.result.kind = "Ok" THEN 0 ELSE 1,
              by |-> "main"]
  /\ UNCHANGED <<mounts, fs, alive, handed, pending, last, build, xl, config, orch, tasks,
               sessions>>

\* A signal the program has no handler for ends the process where it stands:
\* the terminate signal always (ctrl_c() waits for the interrupt signal only),
\* the interrupt signal as long as ctrl_c() has not installed its handler
\* (before the call, and after a call whose registration failed).  The code
\* is the wait status: minus the signal's number.
Killed(sig) ==
  /\ proc.state = "running" /\ orch.pc # "off"
  /\ sig = "SIGINT" => ~orch.handler
  /\ proc' = [state |-> "exited", code |-> IF sig = "SIGINT" THEN -2 ELSE -15,
              by |-> sig]
  /\ UNCHANGED <<mounts, fs, alive, handed, pending, last, build, xl, config, orch, tasks,
               sessions>>

NextRun ==
  \/ \E ok \in BOOLEAN : LoadConfig(ok)
  \/ \E ok \in BOOLEAN : Load(ok)
  \/ ResolveSpawn
  \/ \E i \in DOMAIN tasks : TaskConstruct(i)
  \/ \E i \in DOMAIN tasks, ok \in BOOLEAN : TaskMount(i, ok)
  \/ \E i \in DOMAIN tasks : TaskDropOutput(i)
  \/ Await
  \/ \E ok \in BOOLEAN : CtrlC(ok)
  \/ WaitEnds
  \/ DropLocal
  \/ MainEnds
  \/ \E sig \in {"SIGTERM", "SIGINT"} : Killed(sig)

SpecRun == InitRun /\ [][NextRun]_vars

\* ------------------------------------------------------------ claims C1..C10
Allocated(m) == Cardinality(DOMAIN fs[m].inodes)
\* The paths the identity-table laws are evaluated on: the root, its
\* children and its grandchildren.
LawPaths ==
  {RootPath} \cup {join(RootPath, a) : a \in Names}
             \cup {join(join(RootPath, a), b) : a \in Names, b \in Names}

\* C1: in every reachable state of a mount the identifier->path map and the
\* path->identifier map agree: (i, p) is in the first exactly when (p, i) is
\* in the second.
C1_MapsAgree ==
  \A m \in mounts :
    /\ \A i \in DOMAIN fs[m].inodes :
         /\ fs[m].inodes[i] \in DOMAIN fs[m].paths
         /\ fs[m].paths[fs[m].inodes[i]] = i
    /\ \A p \in DOMAIN fs[m].paths :
         /\ fs[m].paths[p] \in DOMAIN fs[m].inodes
         /\ fs[m].inodes[fs[m].paths[p]] = p

\* A readdir has just allocated identifiers and the table holds four pairs.
C1_Witness ==
  /\ last.op = "readdir" /\ last.fresh
  /\ Allocated(last.m) = 4

\* C2: identifier 1 resolves to "/" , "/" maps to identifier 1, and no other
\* identifier resolves to "/".
C2_RootFixed ==
  \A m \in mounts :
    /\ ROOT_INODE \in DOMAIN fs[m].inodes
    /\ fs[m].inodes[ROOT_INODE] = RootPath
    /\ RootPath \in DOMAIN fs[m].paths
    /\ fs[m].paths[RootPath] = ROOT_INODE
    /\ {i \in DOMAIN fs[m].inodes : fs[m].inodes[i] = RootPath} = {ROOT_INODE}

\* A readdir of a directory directly under the root has allocated children:
\* its ".." went through get_or_create_inode("/").
C2_Witness ==
  /\ last.op = "readdir" /\ last.ino # ROOT_INODE /\ last.fresh
  /\ Len(last.offered) >= 3
  /\ last.offered[2].ino = ROOT_INODE

\* C3: the identifiers of a table are exactly 1 .. next_inode - 1; a request
\* keeps every identifier on the path it had and gives the new paths the
\* identifiers from the old counter upward, so that identifiers are allocated
\* as 2, 3, 4, ... and none is ever given to a second path; the identifiers
\* one readdir allocates come out in increasing order.
C3_State ==
  \A m \in mounts :
    /\ DOMAIN fs[m].inodes = 1..(fs[m].next_inode - 1)
    /\ \A i \in DOMAIN fs[m].inodes : i < fs[m].next_inode
    /\ \A p \in DOMAIN fs[m].paths : p # RootPath => fs[m].paths[p] >= 2
C3_Step ==
  \A m \in mounts :
    /\ fs'[m].next_inode >= fs[m].next_inode
    /\ \A i \in DOMAIN fs[m].inodes :
         i \in DOMAIN fs'[m].inodes /\ fs'[m].inodes[i] = fs[m].inodes[i]
    /\ (DOMAIN fs'[m].inodes) \ (DOMAIN fs[m].inodes)
         = fs[m].next_inode..(fs'[m].next_inode - 1)
    /\ last'.m = m =>
         \A i, j \in 1..Len(last'.offered) :
           (i < j /\ last'.offered[i].ino >= fs[m].next_inode
                  /\ last'.offered[j].ino >= fs[m].next_inode)
             => last'.offered[i].ino < last'.offered[j].ino
C3_Monotone == []C3_State /\ [][C3_Step]_vars

\* Identifiers 2, 3 and 4 have all been allocated.
C3_Witness ==
  /\ last.fresh
  /\ fs[last.m].next_inode = 5

\* C4: on every reachable table t and for all paths p, q: get_or_create(p)
\* resolves back to p; asking again, also after a get_or_create(q) in
\* between or before, returns the same identifier and changes nothing; and
\* for p already in t the call returns t's identifier and leaves t as it is.
C4_GetOrCreateStable ==
  \A m \in mounts : \A p \in LawPaths : \A q \in LawPaths :
    LET t == fs[m]
        r1 == get_or_create_inode(t, p)
        r2 == get_or_create_inode(r1.table, q)
        r3 == get_or_create_inode(r2.table, p)
        q1 == get_or_create_inode(t, q)
        q2 == get_or_create_inode(q1.table, p)
    IN /\ r1.ino \in DOMAIN r1.table.inodes
       /\ r1.table.inodes[r1.ino] = p
       /\ r3.ino = r1.ino
       /\ r3.table = r2.table
       /\ r3.table.inodes[r3.ino] = p
       /\ q2.table.inodes[q2.ino] = p
       /\ (p \in DOMAIN t.paths => r1.ino = t.paths[p] /\ r1.table = t)
       /\ (p \in DOMAIN t.paths => q2.ino = t.paths[p])

\* A lookup has just returned the identifier of a path the table already
\* held, after other paths were added.
C4_Witness ==
  /\ last.op = "lookup" /\ last.reply.kind = "entry" /\ ~last.fresh
  /\ last.reply.attr.ino = 2
  /\ Allocated(last.m) = 4

\* C5: every identifier a mount has put in a reply was in the table when it
\* was emitted and is, in every later state, in the table on the same path;
\* no request removes or changes a pair of either map.
C5_State ==
  \A m \in mounts : \A h \in handed[m] :
    /\ h.path.some
    /\ h.ino \in DOMAIN fs[m].inodes
    /\ fs[m].inodes[h.ino] = h.path.val
C5_Step ==
  \A m \in mounts :
    /\ handed[m] \subseteq handed'[m]
    /\ \A i \in DOMAIN fs[m].inodes :
         i \in DOMAIN fs'[m].inodes /\ fs'[m].inodes[i] = fs[m].inodes[i]
    /\ \A p \in DOMAIN fs[m].paths :
         p \in DOMAIN fs'[m].paths /\ fs'[m].paths[p] = fs[m].paths[p]
C5_NoDangling == []C5_State /\ [][C5_Step]_vars

\* Identifiers from a lookup reply and from readdir entries are out, and
\* requests were served after them.
C5_Witness ==
  /\ last.op = "getattr"
  /\ Cardinality(handed[last.m]) = 4

\* C6: with two mounts, a request served by one mount leaves the RfsFuse of
\* the other (both maps and the counter) as it was.
C6_Step ==
  \A m \in mounts : last'.m # m => fs'[m] = fs[m]
C6_Isolation == [][C6_Step]_vars

\* Both mounts have given identifier 2 away, each to a path of its own, the
\* second while a lookup callback of the first waits for the backend.
C6_Witness ==
  /\ mounts = {1, 2}
  /\ 2 \in DOMAIN fs[1].inodes /\ 2 \in DOMAIN fs[2].inodes
  /\ fs[1].inodes[2] # fs[2].inodes[2]
  /\ pending[1].op = "lookup"
  /\ last.op = "lookup" /\ last.m = 2 /\ last.fresh

\* The answer of the backend to the one call of the last request.
LastOut(l) == l.calls[1].out
NameListed(l) ==
  /\ Len(l.calls) = 1
  /\ LastOut(l).ok
  /\ \E i \in 1..Len(LastOut(l).listing) : LastOut(l).listing[i].name = l.name
ListedEntry(l, name) ==
  LastOut(l).listing[CHOOSE i \in 1..Len(LastOut(l).listing) :
                       LastOut(l).listing[i].name = name].entry

\* The request l found `name` in the listing with a size whose translation
\* overflows, in a build that checks for overflow.
OverflowsInBuild(l, name) ==
  /\ build.overflow_checks
  /\ Len(l.calls) = 1 /\ LastOut(l).ok
  /\ \E i \in 1..Len(LastOut(l).listing) : LastOut(l).listing[i].name = name
  /\ entry_to_attr_overflows(ListedEntry(l, name))

\* C7 (as claimed): lookup(parent, name) with parent known, the backend listing of the
\* parent path successful and name in it replies an entry whose identifier is
\* the one the table had for parent path/name, or else the next unused one,
\* now recorded for that path; whose attributes are the translation of the
\* listed entry; and whose validity is 1 second.
C7_Step ==
  (last'.op = "lookup" /\ last'.ino \in DOMAIN fs[last'.m].inodes /\ NameListed(last'))
    => LET t == fs[last'.m]
           child == Append(t.inodes[last'.ino], last'.name)
           ino == IF child \in DOMAIN t.paths THEN t.paths[child] ELSE t.next_inode
       IN /\ last'.calls[1].dir = path_to_str(t.inodes[last'.ino])
          /\ last'.reply.kind = "entry"
          /\ last'.reply.ttl = 1
          /\ last'.reply.attr.ino = ino
          /\ \E now \in Clock :
               last'.reply.attr = entry_to_attr(ino, ListedEntry(last', last'.name), now)
          /\ ino \in DOMAIN fs'[last'.m].inodes
          /\ fs'[last'.m].inodes[ino] = child
          /\ fs'[last'.m].paths[child] = ino
C7_LookupFound == [][C7_Step]_vars

\* What holds of the code: the claim, but for a listed entry whose size is
\* within 511 of the largest u64 in a build with overflow checks: the
\* identifier is recorded, then the translation panics and no entry is replied.
C7_StepBelowOverflow ==
  IF /\ last'.op = "lookup" /\ last'.ino \in DOMAIN fs[last'.m].inodes
     /\ OverflowsInBuild(last', last'.name)
  THEN LET child == Append(fs[last'.m].inodes[last'.ino], last'.name)
       IN /\ last'.reply = Panicked
          /\ child \in DOMAIN fs'[last'.m].paths
  ELSE C7_Step
C7_LookupFoundBelowOverflow == [][C7_StepBelowOverflow]_vars

\* A lookup under a non-root parent found its name and allocated identifier 4.
C7_Witness ==
  /\ last.op = "lookup" /\ last.ino # ROOT_INODE /\ last.reply.kind = "entry"
  /\ last.fresh
  /\ last.reply.attr.ino = 4

\* C8 (as claimed): lookup replies "no such entry" when the parent is unknown,
\* without a backend call, or when the listing succeeds and lacks the name;
\* it replies I/O failure when the listing fails; and in these cases the
\* table is unchanged.
C8_Step ==
  last'.op = "lookup" =>
    LET t == fs[last'.m]
        known == last'.ino \in DOMAIN t.inodes
        failing == known /\ Len(last'.calls) = 1 /\ ~LastOut(last').ok
        absent == known /\ Len(last'.calls) = 1 /\ LastOut(last').ok
                    /\ ~NameListed(last')
    IN /\ known => Len(last'.calls) = 1
       /\ ~known => (last'.calls = <<>> /\ last'.reply = ReplyError(ENOENT))
       /\ absent => last'.reply = ReplyError(ENOENT)
       /\ failing => last'.reply = ReplyError(EIO)
       /\ (~known \/ absent \/ failing) => fs' = fs
C8_LookupErrors == [][C8_Step]_vars

\* C9 (as claimed): getattr of an identifier other than the root replies "no such entry"
\* for an unknown identifier, I/O failure when the backend listing of the
\* parent path fails, "no such entry" when that listing lacks the file name,
\* and otherwise the translation of the listed entry under the requested
\* identifier; it leaves the table unchanged.
C9_Step ==
  (last'.op = "getattr" /\ last'.ino # ROOT_INODE) =>
    LET t == fs[last'.m]
        ino == last'.ino
    IN /\ fs' = fs
       /\ IF ino \notin DOMAIN t.inodes
          THEN last'.calls = <<>> /\ last'.reply = ReplyError(ENOENT)
          ELSE LET path == t.inodes[ino]
                   dir == SubSeq(path, 1, Len(path) - 1)
                   fname == path[Len(path)]
               IN /\ Len(last'.calls) = 1
                  /\ last'.calls[1].dir = path_to_str(dir)
                  /\ IF ~LastOut(last').ok
                     THEN last'.reply = ReplyError(EIO)
                     ELSE IF \A i \in 1..Len(LastOut(last').listing) :
                               LastOut(last').listing[i].name # fname
                          THEN last'.reply = ReplyError(ENOENT)
                          ELSE /\ last'.reply.kind = "attr"
                               /\ last'.reply.ttl = 1
                               /\ last'.reply.attr.ino = ino
                               /\ \E now \in Clock :
                                    last'.reply.attr =
                                      entry_to_attr(ino, ListedEntry(last', fname), now)
C9_GetattrOther == [][C9_Step]_vars

\* What holds of the code: the claim, but for a listed entry whose size is
\* within 511 of the largest u64 in a build with overflow checks: the
\* translation panics and nothing is replied.
C9_StepBelowOverflow ==
  IF /\ last'.op = "getattr" /\ last'.ino # ROOT_INODE
     /\ last'.ino \in DOMAIN fs[last'.m].inodes
     /\ OverflowsInBuild(last', file_name(fs[last'.m].inodes[last'.ino]))
  THEN last'.reply = Panicked /\ fs' = fs
  ELSE C9_Step
C9_GetattrOtherBelowOverflow == [][C9_StepBelowOverflow]_vars

\* getattr of /a/b (known since an earlier request) when the listing of /a
\* no longer holds b.
C9_Witness ==
  /\ last.op = "getattr" /\ last.ino \in DOMAIN fs[last.m].inodes
  /\ Len(fs[last.m].inodes[last.ino]) = 2
  /\ Len(last.calls) = 1 /\ LastOut(last).ok
  /\ last.reply = ReplyError(ENOENT)

\* C10: getattr of the root replies the fixed root attributes (directory,
\* size 4096, link count 2, permissions 0755) whatever the backend would
\* answer, and calls the backend not at all.
C10_RootGetattr ==
  (last.op = "getattr" /\ last.ino = ROOT_INODE) =>
    /\ last.calls = <<>>
    /\ last.reply.kind = "attr"
    /\ last.reply.attr.ino = ROOT_INODE
    /\ last.reply.attr.kind = "Directory"
    /\ last.reply.attr.size = U64(4096)
    /\ last.reply.attr.nlink = 2
    /\ last.reply.attr.perm = 493
    /\ alive[last.m]

\* getattr of the root on a table that holds four pairs.
C10_Witness ==
  /\ last.op = "getattr" /\ last.ino = ROOT_INODE
  /\ last.reply.kind = "attr"
  /\ Allocated(last.m) = 4

\* ----------------------------------------------------------- claims C11..C20
\* C11: readdir at offset 0 of a known identifier whose listing succeeds, with
\* every offered entry accepted, emits exactly "." (the directory's own
\* identifier, offset 0), ".." (offset 1, the identifier of the parent path,
\* the root's for the root), then one entry per listing child in the
\* listing's order with the child's kind, offsets 2, 3, ... and the
\* identifier the table had for directory/child, or else the next unused ones
\* in listing order, now recorded for those paths.
C11_Step ==
  (/\ last'.op = "readdir" /\ last'.offset = 0
   /\ last'.ino \in DOMAIN fs[last'.m].inodes
   /\ Len(last'.calls) = 1 /\ LastOut(last').ok
   /\ last'.reply.kind = "ok"
   /\ Len(last'.reply.entries) = Len(last'.offered))
    => LET t == fs[last'.m]
           t2 == fs'[last'.m]
           ino == last'.ino
           path == t.inodes[ino]
           listing == LastOut(last').listing
           es == last'.reply.entries
           up == IF path = RootPath THEN RootPath ELSE SubSeq(path, 1, Len(path) - 1)
           base == IF up \in DOMAIN t.paths THEN t.next_inode ELSE t.next_inode + 1
           NewBefore(k) == Cardinality({j \in 1..(k - 1) :
                                          Append(path, listing[j].name) \notin DOMAIN t.paths})
       IN /\ last'.calls[1].dir = path_to_str(path)
          /\ Len(es) = 2 + Len(listing)
          /\ es[1] = DirEntry(ino, 0, "Directory", ".")
          /\ up \in DOMAIN t2.paths
          /\ es[2] = DirEntry(t2.paths[up], 1, "Directory", "..")
          /\ ino = ROOT_INODE => es[2].ino = ROOT_INODE
          /\ \A k \in 1..Len(listing) :
               LET child == Append(path, listing[k].name)
               IN /\ es[k + 2].name = listing[k].name
                  /\ es[k + 2].offset = k + 1
                  /\ es[k + 2].kind = IF listing[k].entry.kind = "Directory"
                                      THEN "Directory" ELSE "RegularFile"
                  /\ es[k + 2].ino = IF child \in DOMAIN t.paths THEN t.paths[child]
                                     ELSE base + NewBefore(k)
                  /\ child \in DOMAIN t2.paths
                  /\ t2.paths[child] = es[k + 2].ino
C11_ReaddirEmits == [][C11_Step]_vars

\* readdir of /x/y, all of "." , ".." (the identifier of /x) and one child
\* accepted, the child newly allocated.
C11_Witness ==
  /\ last.op = "readdir" /\ last.offset = 0 /\ last.reply.kind = "ok"
  /\ last.ino \in DOMAIN fs[last.m].inodes
  /\ Len(fs[last.m].inodes[last.ino]) = 2
  /\ Len(last.reply.entries) = 3 /\ Len(last.offered) = 3
  /\ last.reply.entries[2].ino # ROOT_INODE
  /\ last.fresh

\* C12: readdir with a nonzero offset replies success with no entries for a
\* known identifier, without a backend call and without a change of the
\* table; readdir of an unknown identifier replies "no such entry" at every
\* offset.
C12_Step ==
  last'.op = "readdir" =>
    /\ (last'.ino \in DOMAIN fs[last'.m].inodes /\ last'.offset # 0)
         => /\ last'.reply = ReplyOk(<<>>)
            /\ last'.calls = <<>>
            /\ last'.offered = <<>>
            /\ fs' = fs
    /\ last'.ino \notin DOMAIN fs[last'.m].inodes
         => /\ last'.reply = ReplyError(ENOENT)
            /\ last'.calls = <<>>
            /\ fs' = fs
C12_ReaddirLaterPage == [][C12_Step]_vars

\* readdir of a known directory other than the root at a nonzero offset.
C12_Witness ==
  /\ last.op = "readdir" /\ last.offset # 0
  /\ last.ino \in DOMAIN fs[last.m].inodes /\ last.ino # ROOT_INODE
  /\ last.reply = ReplyOk(<<>>)

\* C13 (as claimed): once add has signalled that the buffer is full, readdir
\* offers no further entry and replies success: a signal is the last thing
\* offered, a success that stops short of the listing stops on a signal, and
\* what the reply carries is what was offered before the signal.
C13_StopsWhenFull ==
  (last.op = "readdir" /\ Len(last.offered) > 0) =>
    /\ Len(last.signals) = Len(last.offered)
    /\ \A i \in 1..Len(last.signals) :
         last.signals[i] => (i = Len(last.offered) /\ last.reply.kind = "ok")
    /\ last.reply.kind = "ok" =>
         /\ \/ Len(last.offered) = 2 + Len(LastOut(last).listing)
            \/ last.signals[Len(last.signals)]
         /\ last.reply.entries =
              IF last.signals[Len(last.signals)]
              THEN SubSeq(last.offered, 1, Len(last.offered) - 1)
              ELSE last.offered

\* The entries of a readdir the buffer took: those offered before the first
\* signal.
Accepted(l) ==
  SubSeq(l.offered, 1, Cardinality({i \in 1..Len(l.signals) : ~l.signals[i]}))

\* C13 (amended): once add has signalled for a listing child that the buffer
\* is full, readdir offers no further entry and replies success; a success
\* that stops short of the listing stops on such a signal.  The signals add
\* gives for "." and ".." are discarded: ".." is offered after a signal for
\* ".", the first listing child after a signal for "..", and a listing that
\* fails then ends the request with I/O failure.  Every entry offered after
\* a signal is refused in turn, and the reply carries the entries the buffer
\* took.
C13_StopsWhenFullInLoop ==
  (last.op = "readdir" /\ Len(last.offered) > 0) =>
    /\ Len(last.signals) = Len(last.offered)
    /\ Len(last.offered) >= 2
    /\ \A i \in 1..Len(last.signals) :
         /\ (last.signals[i] /\ i > 2) =>
              (i = Len(last.offered) /\ last.reply.kind = "ok")
         /\ (last.signals[i] /\ i < Len(last.signals)) => last.signals[i + 1]
    /\ last.reply.kind = "ok" =>
         /\ LastOut(last).ok
         /\ \/ Len(last.offered) = 2 + Len(LastOut(last).listing)
            \/ Len(last.offered) > 2 /\ last.signals[Len(last.signals)]
         /\ last.reply.entries = Accepted(last)
    /\ last.reply.kind = "error" =>
         /\ last.reply = ReplyError(EIO)
         /\ ~LastOut(last).ok
         /\ Len(last.offered) = 2

\* The first of two listed children was refused: the second was not offered
\* and the reply is a success.
C13_Witness ==
  /\ last.op = "readdir" /\ last.reply.kind = "ok"
  /\ Len(last.calls) = 1 /\ Len(LastOut(last).listing) = 2
  /\ Len(last.offered) = 3 /\ last.signals[3]
  /\ ~last.signals[2]

\* The attributes of a reply made by translating a backend entry: getattr of
\* an identifier other than the root, and lookup.
Translated(l) ==
  \/ l.op = "lookup" /\ l.reply.kind = "entry"
  \/ l.op = "getattr" /\ l.ino # ROOT_INODE /\ l.reply.kind = "attr"

\* C14 (as claimed): translated attributes report link count 2 and
\* permissions 0755 for a Directory entry, link count 1 and permissions 0644
\* for a File entry.
C14_LinkCounts ==
  Translated(last) =>
    LET entry == ListedEntry(last, IF last.op = "lookup" THEN last.name
                                   ELSE fs[last.m].inodes[last.ino][Len(fs[last.m].inodes[last.ino])])
        attr == last.reply.attr
    IN IF entry.kind = "Directory"
       THEN attr.kind = "Directory" /\ attr.nlink = 2 /\ attr.perm = 493
       ELSE attr.kind = "RegularFile" /\ attr.nlink = 1 /\ attr.perm = 420

\* ceil(size / 512), which fits a u64 for every u64 size.
CeilDiv512(size) ==
  LET dm == u64_divmod(size, 512)
  IN IF dm.rem = 0 THEN dm.quot ELSE u64_add(dm.quot, U64(1)).val

\* C15 (as claimed): for every u64 size the translation succeeds and reports
\* the size unchanged and ceil(size / 512) blocks.
C15_Blocks ==
  xl.op = "translate" =>
    /\ ~xl.result.panic
    /\ xl.result.attr.size = xl.entry.size
    /\ xl.result.attr.blocks = CeilDiv512(xl.entry.size)

\* What holds of the code: the claim for sizes up to 2^64 - 512, and for the
\* larger ones a panic (overflow checks on) or a wrapped block count of 0.
C15_BlocksBelowOverflow ==
  xl.op = "translate" =>
    IF entry_to_attr_overflows(xl.entry)
    THEN /\ \E d \in 0..510 : xl.entry.size = BelowMax(d)
         /\ xl.overflow_checks => xl.result.panic
         /\ ~xl.overflow_checks =>
              (~xl.result.panic /\ xl.result.attr.blocks = U64(0)
                 /\ xl.result.attr.size = xl.entry.size)
    ELSE /\ ~xl.result.panic
         /\ xl.result.attr.size = xl.entry.size
         /\ xl.result.attr.blocks = CeilDiv512(xl.entry.size)


\* The mount definitions whose pool identifier no pool definition has.
Unresolved ==
  {i \in 1..Len(config.mounts) :
     config.mounts[i].pool_id \notin DOMAIN pool_map(config.pools)}

\* No task has constructed a Request Handler or started a kernel mount.
NothingStarted ==
  /\ mounts = {}
  /\ \A i \in DOMAIN tasks : tasks[i].st \in {"none", "queued"} /\ sessions[i] = "none"

\* C16 (as claimed): when a mount definition, wherever it is in the list,
\* names a pool that is not defined, run fails with the configuration error
\* naming that mount point and pool identifier, and no Request Handler has
\* been constructed and no kernel mount started for any mount definition.
C16_UnknownPool ==
  (orch.pc = "returned" /\ orch.result # ErrPool /\ Unresolved # {}) =>
    /\ \E i \in Unresolved :
         orch.result = ErrMountConfig(config.mounts[i].mount_point,
                                      config.mounts[i].pool_id)
    /\ NothingStarted

\* What holds of the code: the error names the first unresolved definition,
\* and nothing has been started for that definition or a later one.
C16_UnknownPoolFromThere ==
  (orch.pc = "returned" /\ orch.result # ErrPool /\ Unresolved # {}) =>
    \E i \in Unresolved :
      /\ \A k \in Unresolved : i <= k
      /\ orch.result = ErrMountConfig(config.mounts[i].mount_point,
                                      config.mounts[i].pool_id)
      /\ \A k \in DOMAIN tasks : k >= i => tasks[k].st = "none" /\ sessions[k] = "none"

\* C17 (as claimed): when an establishment attempt fails, run returns the
\* first failure without reaching the signal wait, and when the process exits
\* no session is left established, those of attempts not yet awaited included.
C17_FirstFailure ==
  (proc.state = "exited" /\ proc.by = "main" /\ orch.result.kind = "Io"
     /\ orch.result.of \in DOMAIN tasks) =>
    /\ ~orch.waited
    /\ tasks[orch.result.of].st = "err"
    /\ \A k \in DOMAIN tasks : k < orch.result.of => tasks[k].st = "taken"
    /\ \A i \in DOMAIN sessions : sessions[i] # "active"

\* What holds of the code: the failure returned is the first in the order of
\* the mount definitions, the wait is not reached, and the sessions run had
\* collected are released; a session of an attempt not yet awaited may be left.
C17_FirstFailureAwaited ==
  (proc.state = "exited" /\ proc.by = "main" /\ orch.result.kind = "Io"
     /\ orch.result.of \in DOMAIN tasks) =>
    /\ ~orch.waited
    /\ tasks[orch.result.of].st = "err"
    /\ \A k \in DOMAIN tasks :
         k < orch.result.of => tasks[k].st = "taken" /\ sessions[k] = "released"

\* C18 (as claimed): once all sessions are active, whatever comes (an
\* interrupt signal, a terminate signal, an error of the wait), every session
\* is released before the process exits.
C18_ReleaseOnShutdown ==
  (proc.state = "exited" /\ orch.mounted) =>
    \A i \in DOMAIN sessions : sessions[i] # "active"

\* What holds of the code: the sessions are released when the wait ends with
\* the interrupt signal or with an error, that is when main ends the process.
C18_ReleaseOnReturn ==
  (proc.state = "exited" /\ orch.mounted /\ proc.by = "main") =>
    \A i \in DOMAIN sessions : sessions[i] = "released"


\* C19 (as claimed): every request, whatever the identifier, the name
\* (names that are not valid text included) and the backend outcome, gets one
\* reply (a success, "no such entry" or I/O failure), and the dispatch thread
\* of the mount is there to serve the next request.
C19_AlwaysReplies ==
  last.op # "none" =>
    /\ last.answer.kind \in {"attr", "entry", "ok", "error"}
    /\ last.answer.kind = "error" => last.answer.errno \in {ENOENT, EIO}
    /\ alive[last.m]

\* What holds of the code: the claim for every request but a lookup of a name
\* that is not valid text under a known parent whose listing succeeds, and a
\* getattr or lookup that translates a size within 511 of the largest u64 in
\* a build with overflow checks.
C19_RepliesButBadName ==
  last.op # "none" =>
    IF \/ /\ last.op = "lookup" /\ last.name = BadName
          /\ Len(last.calls) = 1 /\ LastOut(last).ok
       \/ /\ last.op = "lookup"
          /\ OverflowsInBuild(last, last.name)
       \/ /\ last.op = "getattr" /\ last.ino # ROOT_INODE
          /\ last.ino \in DOMAIN fs[last.m].inodes
          /\ OverflowsInBuild(last, file_name(fs[last.m].inodes[last.ino]))
    THEN /\ last.reply = Panicked /\ ~alive[last.m]
         /\ last.answer \in {NoAnswer, ReplyError(EIO)}
    ELSE /\ last.answer = last.reply
         /\ last.reply.kind \in {"attr", "entry", "ok", "error"}
         /\ last.reply.kind = "error" => last.reply.errno \in {ENOENT, EIO}
         /\ alive[last.m]


C20_State ==
  \A m \in mounts : \A p \in DOMAIN fs[m].paths :
    parent_or_root(p) \in DOMAIN fs[m].paths

\* C20 (as claimed): the parent path of every path in a table is in that
\* table, and a request (getattr, lookup, readdir, open, read) answered with
\* "no such entry" or I/O failure leaves every mount's table (both maps and
\* the next-identifier counter) as it was, before the backend's answer and
\* after it; so a readdir whose backend listing fails allocates nothing.
C20_Step ==
  /\ (last'.op # "none" /\ last'.answer.kind = "error") =>
       /\ last'.answer.errno \in {ENOENT, EIO}
       /\ fs' = fs
  /\ (last'.op = "none" /\ pending' # pending) => fs' = fs
C20_ErrorsLeaveTable == []C20_State /\ [][C20_Step]_vars

\* What holds of the code: the claim for every request but a lookup that
\* finds a size within 511 of the largest u64 in a build with overflow
\* checks, which has recorded the identifier of the name when it panics; the
\* requests the callback itself answers with an error, and a lookup that
\* panics on a name that is not valid text, leave the table as it was.
C20_StepBelowOverflow ==
  /\ (/\ last'.op # "none"
      /\ last'.answer.kind = "error" \/ last'.reply.kind = "error"
      /\ ~(last'.op = "lookup" /\ OverflowsInBuild(last', last'.name))) =>
       /\ last'.answer.kind = "error" => last'.answer.errno \in {ENOENT, EIO}
       /\ fs' = fs
  /\ (/\ last'.op = "lookup" /\ OverflowsInBuild(last', last'.name)
      /\ last'.ino \in DOMAIN fs[last'.m].inodes) =>
       /\ last'.reply = Panicked
       /\ last'.answer \in {NoAnswer, ReplyError(EIO)}
       /\ fs'[last'.m] =
            get_or_create_inode(fs[last'.m],
                                join(fs[last'.m].inodes[last'.ino], last'.name)).table
  /\ (last'.op = "none" /\ pending' # pending) => fs' = fs
C20_ErrorsLeaveTableBelowOverflow == []C20_State /\ [][C20_StepBelowOverflow]_vars

====
